---- MODULE Spec2Model ----
(***************************************************************************)
(* A model of nightshade's terrain obstruction model (src/src/terrain.py), *)
(* of the daily sweep of predict_sunlight_loss (src/src/main.py) and of    *)
(* the crossing searches of SolarCalculator (src/src/solar.py).            *)
(*                                                                         *)
(* Degrees are modelled exactly: azimuths, altitudes and stored elevation  *)
(* angles are integers, and an interpolated obstruction angle is the exact *)
(* rational num/den (Python computes the same expression in binary         *)
(* floating point).  A call that raises is modelled by its exception.      *)
(***************************************************************************)
EXTENDS Integers, Sequences, FiniteSets, TLC

VARIABLES
    elevations,           \* TerrainProfile.elevations: dict azimuth -> elevation angle
    reference_elevation,  \* TerrainProfile.reference_elevation
    supplied,             \* history: the (azimuth, value) samples handed to the profile
                          \* since it was last replaced, in the order supplied
    call,                 \* the last call made on the profile, with its arguments
    result,               \* what that call returned or raised
    sky,                  \* the provider's positions of the day, one per sample
    report_horizon,       \* predict_sunlight_loss(..., terrain_file=None) of that day
    report_terrain,       \* predict_sunlight_loss(..., terrain_file=<file>) of that day
    terrain_file,         \* the parsed terrain file of the last call that named one
    sun,                  \* the sun's altitude over the day, as the provider gives it
    search,               \* the last SolarCalculator search called, with its arguments
    found                 \* what that search returned

vars == <<elevations, reference_elevation, supplied, call, result,
          sky, report_horizon, report_terrain, terrain_file, sun, search, found>>

terrain_vars == <<elevations, reference_elevation, supplied, call, result>>
solar_vars == <<sun, search, found>>
predict_vars == <<sky, report_horizon, report_terrain, terrain_file, solar_vars>>

(***************************************************************************)
(* Bounds of the model.                                                    *)
(***************************************************************************)
MaxDict == 2        \* most items of a dictionary handed to load_from_dict
MaxHistory == 2     \* most samples supplied to one profile before it is replaced
DaySamples == 3     \* samples of the day sweep (the code takes 1440, one per minute)
MaxPositions == 2   \* most positions in a list handed to find_unobstructed_sunset
TicksPerSecond == 1024  \* clock ticks in a second (datetime has 10^6)
SunKnots == 3       \* altitudes that describe the sun of one day

MinutesPerDay == 1440

\* solar.py: tolerance_seconds=1 (lines 91, 169) and step_minutes=1 (line 55)
DefaultTolerance == 1
DefaultStep == 1

(***************************************************************************)
(* Exact arithmetic on num/den.                                            *)
(***************************************************************************)
Abs(n) == IF n < 0 THEN -n ELSE n

RECURSIVE GCD(_, _)
GCD(a, b) == IF b = 0 THEN a ELSE GCD(b, a % b)

\* The rational n/d in lowest terms with a positive denominator (d # 0).
Rat(n, d) ==
    LET g == GCD(Abs(n), Abs(d))
        s == IF d < 0 THEN -1 ELSE 1
    IN  [kind |-> "value", num |-> s * (n \div g), den |-> Abs(d) \div g]

Whole(n) == [kind |-> "value", num |-> n, den |-> 1]
Raise(e) == [kind |-> "raise", exc |-> e]
Bool(b) == [kind |-> "bool", val |-> b]
None == [kind |-> "none"]

(***************************************************************************)
(* Python dictionaries: a function on the set of keys.                     *)
(***************************************************************************)
EmptyDict == [k \in {} |-> 0]

\* d[k] = v
DictSet(d, k, v) == [x \in (DOMAIN d) \cup {k} |-> IF x = k THEN v ELSE d[x]]

\* sorted(keys)
RECURSIVE sorted(_)
sorted(S) ==
    IF S = {} THEN <<>>
    ELSE LET m == CHOOSE x \in S : \A y \in S : x <= y
         IN  <<m>> \o sorted(S \ {m})

(***************************************************************************)
(* float(k) of a dictionary key.  A key handed over by Python code is a    *)
(* number and keeps its value; a key read by json.load is a string of      *)
(* characters, which float() parses as a decimal numeral.  The files of    *)
(* the model hold numerals whose fraction digits are all zero.             *)
(***************************************************************************)
Digit(c) ==
    CASE c = "0" -> 0 [] c = "1" -> 1 [] c = "2" -> 2 [] c = "3" -> 3 [] c = "4" -> 4
      [] c = "5" -> 5 [] c = "6" -> 6 [] c = "7" -> 7 [] c = "8" -> 8 [] c = "9" -> 9

\* value of the digits of s before the first "." (or before its end), read left to right
RECURSIVE Numeral(_, _, _)
Numeral(s, i, acc) ==
    IF i > Len(s) \/ s[i] = "." THEN acc
    ELSE Numeral(s, i + 1, 10 * acc + Digit(s[i]))

ParseFloat(s) ==
    IF s[1] = "-" THEN -Numeral(s, 2, 0) ELSE Numeral(s, 1, 0)

Num(n) == [type |-> "num", num |-> n, str |-> <<>>]
Str(s) == [type |-> "str", num |-> 0, str |-> s]

float(k) == IF k.type = "num" THEN k.num ELSE ParseFloat(k.str)

(***************************************************************************)
(* TerrainProfile.get_obstruction_angle                                    *)
(***************************************************************************)
\* a slip of interpolate: the nearer-side sample's value, no interpolation
interpolate_none(el1, el2, num, den) ==
    IF den = 0 THEN Raise("ZeroDivisionError") ELSE Whole(el1)

\* el1 + frac * (el2 - el1) with frac = num / den
interpolate(el1, el2, num, den) ==
    IF den = 0 THEN Raise("ZeroDivisionError")
    ELSE Rat(el1 * den + num * (el2 - el1), den)

\* the loop of lines 81-85: the first position whose azimuth is greater than the
\* query, 0 when there is none (positions count from 1, Python's from 0)
RECURSIVE find_idx(_, _, _)
find_idx(azimuths, azimuth, i) ==
    IF i > Len(azimuths) THEN 0
    ELSE IF azimuths[i] > azimuth THEN i
    ELSE find_idx(azimuths, azimuth, i + 1)

\* idx is None: beyond the last azimuth, wrap around
wrap_around(elev, azimuths, azimuth) ==
    IF azimuths = <<>> THEN Raise("IndexError")
    ELSE LET az1 == azimuths[Len(azimuths)]
             az2 == azimuths[1]
         IN  interpolate(elev[az1], elev[az2], azimuth - az1, 360 + az2 - az1)

\* a slip of before_first: azimuths[-1] for azimuths[0]
before_first_last(elev, azimuths) == Whole(elev[azimuths[Len(azimuths)]])

\* idx == 0: before the first azimuth
before_first(elev, azimuths) == Whole(elev[azimuths[1]])

\* between azimuths[idx - 1] and azimuths[idx]
between(elev, azimuths, idx, azimuth) ==
    LET az1 == azimuths[idx - 1]
        az2 == azimuths[idx]
    IN  interpolate(elev[az1], elev[az2], azimuth - az1, az2 - az1)

\* a slip of normalize: the azimuth is used as given
normalize_skipped(azimuth) == azimuth

\* azimuth % 360
normalize(azimuth) == azimuth % 360

get_obstruction_angle(elev, azimuth_arg) ==
    LET azimuth == normalize(azimuth_arg)
    IN  IF azimuth \in DOMAIN elev THEN Whole(elev[azimuth])
        ELSE LET azimuths == sorted(DOMAIN elev)
                 idx == find_idx(azimuths, azimuth, 1)
             IN  IF idx = 0 THEN wrap_around(elev, azimuths, azimuth)
                 ELSE IF idx = 1 THEN before_first(elev, azimuths)
                 ELSE between(elev, azimuths, idx, azimuth)

(***************************************************************************)
(* TerrainProfile.is_sun_blocked                                           *)
(***************************************************************************)
\* a slip of at_or_below: < for <=
strictly_below(sun_altitude, obstruction_angle) ==
    sun_altitude * obstruction_angle.den < obstruction_angle.num

\* sun_altitude <= obstruction_angle, for obstruction_angle = num/den, den > 0
at_or_below(sun_altitude, obstruction_angle) ==
    sun_altitude * obstruction_angle.den <= obstruction_angle.num

is_sun_blocked(elev, sun_altitude, sun_azimuth) ==
    LET obstruction_angle == get_obstruction_angle(elev, sun_azimuth)
    IN  IF obstruction_angle.kind = "raise" THEN obstruction_angle
        ELSE Bool(at_or_below(sun_altitude, obstruction_angle))

(***************************************************************************)
(* The inputs of the model.                                                *)
(***************************************************************************)
\* azimuths handed to the profile by callers: in range and past 360 (405 is 45);
\* the files below also hold a negative one (-270 is 90)
Azimuths == {0, 45, 90, 405}
\* elevation angles handed to the profile
Angles == {0, 20}
\* azimuths and altitudes queried
QueryAzimuths == {0, 45, 200, 405, -315}
QueryAltitudes == {10, 20}
ReferenceElevations == {1500}

Items == {<<Num(a), e>> : a \in Azimuths, e \in Angles}

\* dictionaries of Python callers: up to MaxDict items with distinct keys, in insertion order
RECURSIVE DictsOfLen(_)
DictsOfLen(n) ==
    IF n = 0 THEN {<<>>}
    ELSE {Append(d, it) : d \in {p \in DictsOfLen(n - 1) : Len(p) = n - 1},
                          it \in Items} \cup DictsOfLen(n - 1)

Dicts == {d \in DictsOfLen(MaxDict) :
             \A i, j \in 1..Len(d) : i # j => d[i][1] # d[j][1]}

\* terrain_file = None
NoFile ==
    [has_elevations |-> FALSE, elevations |-> <<>>, has_reference |-> FALSE,
     reference_elevation |-> 0]

\* no search was called: the sun's altitude plays no part
SolarIdle ==
    /\ sun = <<>>
    /\ search = [op |-> "none"]
    /\ found = None

\* parsed JSON documents: "elevations" (None when the file has no such key) is the
\* list of items of the object, "reference_elevation" likewise
Files ==
    { [has_elevations |-> FALSE, elevations |-> <<>>, has_reference |-> FALSE,
       reference_elevation |-> 0],
      [has_elevations |-> TRUE, elevations |-> <<>>, has_reference |-> TRUE,
       reference_elevation |-> 1500],
      [has_elevations |-> TRUE,
       elevations |-> << <<Str(<<"0">>), 0>>, <<Str(<<"9", "0", ".", "0">>), 20>> >>,
       has_reference |-> TRUE, reference_elevation |-> 1500],
      [has_elevations |-> TRUE,
       elevations |-> << <<Str(<<"4", "5">>), 0>>, <<Str(<<"4", "0", "5">>), 20>> >>,
       has_reference |-> FALSE, reference_elevation |-> 0],
      [has_elevations |-> TRUE,
       elevations |-> << <<Str(<<"-", "2", "7", "0">>), 20>>, <<Str(<<"9", "0">>), 0>> >>,
       has_reference |-> FALSE, reference_elevation |-> 0],
      [has_elevations |-> TRUE,
       elevations |-> << <<Str(<<"1", "8", "0">>), -5>> >>,
       has_reference |-> FALSE, reference_elevation |-> 0] }

(***************************************************************************)
(* The operations of TerrainProfile.                                       *)
(***************************************************************************)
\* {float(k): float(v) for k, v in data.items()}: a later item with the same
\* float key replaces the earlier value
RECURSIVE dict_comprehension(_, _, _)
dict_comprehension(data, i, acc) ==
    IF i > Len(data) THEN acc
    ELSE dict_comprehension(data, i + 1, DictSet(acc, float(data[i][1]), data[i][2]))

\* the samples data hands over, as (float(k), float(v)), in order
samples_of(data) == [i \in 1..Len(data) |-> <<float(data[i][1]), data[i][2]>>]

add_elevation_point(azimuth, elevation_angle) ==
    /\ Len(supplied) < MaxHistory
    /\ elevations' = DictSet(elevations, normalize(azimuth), elevation_angle)
    /\ supplied' = Append(supplied, <<azimuth, elevation_angle>>)
    /\ call' = [op |-> "add_elevation_point", azimuth |-> azimuth,
                altitude |-> elevation_angle]
    /\ result' = None
    /\ UNCHANGED <<reference_elevation, predict_vars>>

load_from_dict(data, reference, op) ==
    /\ elevations' = dict_comprehension(data, 1, EmptyDict)
    /\ reference_elevation' = reference
    /\ supplied' = samples_of(data)
    /\ call' = [op |-> op, azimuth |-> 0, altitude |-> 0]
    /\ result' = None
    /\ UNCHANGED predict_vars

load_from_file(file) ==
    load_from_dict(IF file.has_elevations THEN file.elevations ELSE <<>>,
                   IF file.has_reference THEN file.reference_elevation ELSE 0,
                   "load_from_file")

\* a slip of a lookup: the computed angle is written back into the profile
call_get_obstruction_angle_cached(azimuth) ==
    /\ call' = [op |-> "get_obstruction_angle", azimuth |-> azimuth, altitude |-> 0]
    /\ result' = get_obstruction_angle(elevations, azimuth)
    /\ elevations' = IF result'.kind = "value" /\ result'.den = 1
                     THEN DictSet(elevations, normalize(azimuth), result'.num)
                     ELSE elevations
    /\ UNCHANGED <<reference_elevation, supplied, predict_vars>>

call_get_obstruction_angle(azimuth) ==
    /\ call' = [op |-> "get_obstruction_angle", azimuth |-> azimuth, altitude |-> 0]
    /\ result' = get_obstruction_angle(elevations, azimuth)
    /\ UNCHANGED <<elevations, reference_elevation, supplied, predict_vars>>

call_is_sun_blocked(sun_altitude, sun_azimuth) ==
    /\ call' = [op |-> "is_sun_blocked", azimuth |-> sun_azimuth,
                altitude |-> sun_altitude]
    /\ result' = is_sun_blocked(elevations, sun_altitude, sun_azimuth)
    /\ UNCHANGED <<elevations, reference_elevation, supplied, predict_vars>>

\* TerrainProfile(): an empty profile
Init ==
    /\ elevations = EmptyDict
    /\ reference_elevation = 0
    /\ supplied = <<>>
    /\ call = [op |-> "init", azimuth |-> 0, altitude |-> 0]
    /\ result = None
    /\ sky = <<>>
    /\ report_horizon = None
    /\ report_terrain = None
    /\ terrain_file = NoFile
    /\ SolarIdle

AddPoint == \E a \in Azimuths, e \in Angles : add_elevation_point(a, e)
LoadDict == \E d \in Dicts, r \in ReferenceElevations : load_from_dict(d, r, "load_from_dict")
LoadFile == \E f \in Files : load_from_file(f)
GetAngle == \E a \in QueryAzimuths : call_get_obstruction_angle(a)
IsBlocked == \E h \in QueryAltitudes, a \in QueryAzimuths : call_is_sun_blocked(h, a)

Next == AddPoint \/ LoadDict \/ LoadFile \/ GetAngle \/ IsBlocked

Spec == Init /\ [][Next]_vars

(***************************************************************************)
(* TerrainProfile.find_unobstructed_sunset and the lookups on a profile    *)
(* that was loaded once: the profile is what load_from_dict leaves, and    *)
(* only the three lookups are called on it.                                *)
(***************************************************************************)
\* a slip of find_unobstructed_sunset's loop: it stops at the first unblocked
\* position instead of going on to the last
RECURSIVE first_unobstructed(_, _, _, _)
first_unobstructed(elev, solar_positions, i, last_unobstructed) ==
    IF i > Len(solar_positions) THEN last_unobstructed
    ELSE LET position == solar_positions[i]
             blocked == is_sun_blocked(elev, position.altitude, position.azimuth)
         IN  IF blocked.kind = "raise" THEN blocked
             ELSE IF ~blocked.val
                  THEN [kind |-> "position", time |-> position.time,
                        altitude |-> position.altitude, azimuth |-> position.azimuth]
                  ELSE first_unobstructed(elev, solar_positions, i + 1, last_unobstructed)

\* the loop of lines 139-141 from position i on: last_unobstructed when the list is
\* exhausted, or the exception is_sun_blocked raised
RECURSIVE last_unobstructed_from(_, _, _, _)
last_unobstructed_from(elev, solar_positions, i, last_unobstructed) ==
    IF i > Len(solar_positions) THEN last_unobstructed
    ELSE LET position == solar_positions[i]
             blocked == is_sun_blocked(elev, position.altitude, position.azimuth)
         IN  IF blocked.kind = "raise" THEN blocked
             ELSE last_unobstructed_from(elev, solar_positions, i + 1,
                      IF ~blocked.val
                      THEN [kind |-> "position", time |-> position.time,
                            altitude |-> position.altitude, azimuth |-> position.azimuth]
                      ELSE last_unobstructed)

find_unobstructed_sunset(elev, solar_positions) ==
    last_unobstructed_from(elev, solar_positions, 1, None)

\* lists of solar positions: the i-th is taken at hour i, at azimuth 45 or 200
ListAltitudes == {5, 25}
ListAzimuths == {45, 200}
RECURSIVE PositionLists(_)
PositionLists(n) ==
    IF n = 0 THEN {<<>>}
    ELSE PositionLists(n - 1) \cup
         {Append(l, [time |-> n, altitude |-> h, azimuth |-> a]) :
              l \in {p \in PositionLists(n - 1) : Len(p) = n - 1},
              h \in ListAltitudes, a \in ListAzimuths}

call_find_unobstructed_sunset(solar_positions) ==
    /\ call' = [op |-> "find_unobstructed_sunset", azimuth |-> 0, altitude |-> 0,
                positions |-> solar_positions]
    /\ result' = find_unobstructed_sunset(elevations, solar_positions)
    /\ UNCHANGED <<elevations, reference_elevation, supplied, predict_vars>>

\* TerrainProfile() followed by load_from_dict(d, r)
InitLoaded ==
    /\ \E d \in Dicts, r \in ReferenceElevations \cup {0} :
           /\ elevations = dict_comprehension(d, 1, EmptyDict)
           /\ reference_elevation = r
           /\ supplied = samples_of(d)
    /\ call = [op |-> "load_from_dict", azimuth |-> 0, altitude |-> 0]
    /\ result = None
    /\ sky = <<>>
    /\ report_horizon = None
    /\ report_terrain = None
    /\ terrain_file = NoFile
    /\ SolarIdle

FindSunset == \E l \in PositionLists(MaxPositions) : call_find_unobstructed_sunset(l)

NextLookup == GetAngle \/ IsBlocked \/ FindSunset

LookupSpec == InitLoaded /\ [][NextLookup]_vars

(***************************************************************************)
(* Properties of the terrain obstruction model.                            *)
(***************************************************************************)
IsNonEmpty == elevations # EmptyDict
Keys == DOMAIN elevations
SmallestKey == CHOOSE k \in Keys : \A j \in Keys : k <= j
LargestKey == CHOOSE k \in Keys : \A j \in Keys : k >= j
Query == call.azimuth % 360

\* the i-th supplied sample was not overwritten by a later one of the same direction
NotOverwritten(i) ==
    \A j \in (i + 1)..Len(supplied) : supplied[j][1] % 360 # supplied[i][1] % 360

\* C2: on a profile that holds no samples is_sun_blocked returns false for every
\* altitude and azimuth and raises nothing.
C2_EmptyProfileNeverBlocks ==
    (call.op = "is_sun_blocked" /\ ~IsNonEmpty) => result = Bool(FALSE)

\* C3: for every sample (A, V) that was supplied and not later overwritten or
\* replaced, get_obstruction_angle(A) returns exactly V.
C3_SuppliedSampleReturnedExactly ==
    \A i \in 1..Len(supplied) :
        NotOverwritten(i) =>
            get_obstruction_angle(elevations, supplied[i][1]) = Whole(supplied[i][2])

\* C4: on a non-empty profile is_sun_blocked(altitude, azimuth) is true exactly when
\* altitude <= get_obstruction_angle(azimuth) (a sun exactly at the obstruction
\* angle is blocked); when the lookup raises, is_sun_blocked raises the same.
C4_BlockedIffAtOrBelow ==
    (call.op = "is_sun_blocked" /\ IsNonEmpty) =>
        LET angle == get_obstruction_angle(elevations, call.azimuth)
        IN  IF angle.kind = "value"
            THEN /\ result.kind = "bool"
                 /\ result.val <=> (call.altitude * angle.den < angle.num
                                    \/ call.altitude * angle.den = angle.num)
            ELSE result = angle

\* C4 witness: a sun exactly at an interpolated obstruction angle was reported blocked
C4_Witness ==
    /\ call.op = "is_sun_blocked"
    /\ IsNonEmpty
    /\ Query \notin Keys
    /\ get_obstruction_angle(elevations, call.azimuth) = Whole(call.altitude)
    /\ result = Bool(TRUE)

\* C5: on a non-empty profile get_obstruction_angle(q) equals
\* get_obstruction_angle(q mod 360), also for negative q and q >= 360.
C5_QueryEqualsQueryMod360 ==
    (call.op = "get_obstruction_angle" /\ IsNonEmpty) =>
        result = get_obstruction_angle(elevations, call.azimuth % 360)

\* C5 witness: a negative azimuth was looked up and gave an interpolated value
C5_Witness ==
    /\ call.op = "get_obstruction_angle"
    /\ call.azimuth < 0
    /\ IsNonEmpty
    /\ Query \notin Keys
    /\ result.kind = "value"
    /\ result.den > 1

\* the two samples the claim names for a query q that is not stored and lies above
\* the smallest stored azimuth, and the length of the arc between them
Below == CHOOSE k \in Keys : k < Query /\ \A j \in Keys : j < Query => j <= k
HasAbove == \E k \in Keys : k > Query
Above ==
    IF HasAbove THEN CHOOSE k \in Keys : k > Query /\ \A j \in Keys : j > Query => k <= j
    ELSE SmallestKey
Arc == IF HasAbove THEN Above - Below ELSE 360 + Above - Below

\* C6: for a query q that is not stored and is greater than the smallest stored
\* azimuth, the returned value is el1 + (q - az1)/arc * (el2 - el1), az1 the nearest
\* stored azimuth below q, az2 the nearest above it or, above the largest, the
\* smallest one through 360; samples 0->0 and 90->20 give 10 at 45.
C6_LinearInterpolation ==
    /\ (/\ call.op = "get_obstruction_angle"
        /\ IsNonEmpty
        /\ Query \notin Keys
        /\ Query > SmallestKey
        /\ Arc # 0)
       => /\ result.kind = "value"
          /\ result.num * Arc =
                 result.den * (elevations[Below] * Arc
                               + (Query - Below) * (elevations[Above] - elevations[Below]))
    /\ (/\ call.op = "get_obstruction_angle"
        /\ Keys = {0, 90}
        /\ elevations[0] = 0
        /\ elevations[90] = 20
        /\ call.azimuth = 45)
       => result = Whole(10)

\* C6 witness: a query above the largest stored azimuth was interpolated through 360
\* between two samples of different value
C6_Witness ==
    /\ call.op = "get_obstruction_angle"
    /\ IsNonEmpty
    /\ Query \notin Keys
    /\ Query > LargestKey
    /\ SmallestKey >= 0
    /\ elevations[SmallestKey] # elevations[LargestKey]
    /\ result.kind = "value"
    /\ result.den > 1

\* C7: for a normalised query strictly smaller than the smallest stored azimuth the
\* value of the smallest-azimuth sample is returned unchanged.
C7_BeforeSmallestClamps ==
    (call.op = "get_obstruction_angle" /\ IsNonEmpty /\ Query < SmallestKey) =>
        result = Whole(elevations[SmallestKey])

\* C7 witness: such a query on a profile whose largest-azimuth sample has another value
C7_Witness ==
    /\ call.op = "get_obstruction_angle"
    /\ IsNonEmpty
    /\ Query < SmallestKey
    /\ elevations[LargestKey] # elevations[SmallestKey]
    /\ result = Whole(elevations[SmallestKey])

\* what get_obstruction_angle tends to as the query tends to 360 from below, on a
\* profile whose azimuths lie in [0, 360): above the largest azimuth the function is
\* the wrap-around line, whose value at 360 is its limit
LeftLimitAt360 ==
    interpolate(elevations[LargestKey], elevations[SmallestKey],
                360 - LargestKey, 360 + SmallestKey - LargestKey)

\* C8: get_obstruction_angle is continuous on the circle: the value approached as
\* the query tends to 360 from below equals the value returned at azimuth 0.
C8_ContinuousAcross360 ==
    (IsNonEmpty /\ \A k \in Keys : 0 <= k /\ k < 360) =>
        LeftLimitAt360 = get_obstruction_angle(elevations, 0)

\* C9: every azimuth key stored in the profile lies in [0, 360).
C9_StoredAzimuthsNormalised ==
    \A k \in Keys : 0 <= k /\ k < 360

\* C10: samples whose azimuths coincide after normalisation are kept as one sample
\* carrying the value supplied last: the number of stored samples equals the number
\* of distinct normalised azimuths supplied.
C10_OneSamplePerDirection ==
    /\ Cardinality(Keys) =
           Cardinality({supplied[i][1] % 360 : i \in 1..Len(supplied)})
    /\ \A i \in 1..Len(supplied) :
           NotOverwritten(i) =>
               /\ supplied[i][1] % 360 \in Keys
               /\ elevations[supplied[i][1] % 360] = supplied[i][2]

(***************************************************************************)
(* predict_sunlight_loss: the sweep of one day.                            *)
(*                                                                         *)
(* Instants are minutes since 00:00 of the day.  The code samples every    *)
(* minute; the model samples every MinutesPerDay / DaySamples minutes, so  *)
(* that its day still spans 24 hours.  The position provider is external:  *)
(* sky holds the position it returns for each sample of the day.           *)
(***************************************************************************)
Some(v) == <<v>>
Nothing == <<>>

StepMinutes == MinutesPerDay \div DaySamples

\* datetime.isoformat() and datetime.fromisoformat() at minute resolution
isoformat(t) == [hour |-> t \div 60, minute |-> t % 60]
fromisoformat(iso) == 60 * iso.hour + iso.minute

\* a slip of get_solar_position: the altitude and azimuth of the day's first sample,
\* whatever the instant asked for
get_solar_position_stale(positions, dt) ==
    LET p == positions[1]
    IN  [altitude |-> p.altitude, azimuth |-> p.azimuth, time |-> isoformat(dt)]

\* SolarCalculator.get_solar_position(dt) as the provider answers it
get_solar_position(positions, dt) ==
    LET p == positions[dt \div StepMinutes + 1]
    IN  [altitude |-> p.altitude, azimuth |-> p.azimuth, time |-> isoformat(dt)]

\* terrain.load_from_file(terrain_file) on a fresh TerrainProfile
loaded_profile(file) ==
    dict_comprehension(IF file.has_elevations THEN file.elevations ELSE <<>>,
                       1, EmptyDict)

\* the while loop of lines 56-67: the positions kept, or the exception raised
RECURSIVE sweep(_, _, _, _, _, _)
sweep(positions, use_terrain, terrain, current_time, end_time, solar_positions) ==
    IF ~(current_time < end_time) THEN [kind |-> "list", list |-> solar_positions]
    ELSE LET pos == get_solar_position(positions, current_time)
             blocked == is_sun_blocked(terrain, pos.altitude, pos.azimuth)
             keep == IF use_terrain THEN ~blocked.val ELSE pos.altitude > 0
         IN  IF use_terrain /\ blocked.kind = "raise" THEN blocked
             ELSE sweep(positions, use_terrain, terrain,
                        current_time + StepMinutes, end_time,
                        IF keep THEN Append(solar_positions, pos) ELSE solar_positions)

\* a slip of build_report: solar_positions[-1] for the rise, solar_positions[0] for
\* the loss
build_report_swapped(solar_positions, use_terrain) ==
    LET has == solar_positions # <<>>
        first_position == solar_positions[Len(solar_positions)]
        last_position == solar_positions[1]
        sunrise_time == fromisoformat(first_position.time)
        sunset_time == fromisoformat(last_position.time)
    IN  [kind |-> "report",
         has_sunlight |-> Len(solar_positions) > 0,
         first_direct_sunlight |-> IF has THEN Some(isoformat(sunrise_time)) ELSE Nothing,
         sun_altitude_at_rise |-> IF has THEN Some(first_position.altitude) ELSE Nothing,
         sun_azimuth_at_rise |-> IF has THEN Some(first_position.azimuth) ELSE Nothing,
         last_direct_sunlight |-> IF has THEN Some(isoformat(sunset_time)) ELSE Nothing,
         sun_altitude_at_loss |-> IF has THEN Some(last_position.altitude) ELSE Nothing,
         sun_azimuth_at_loss |-> IF has THEN Some(last_position.azimuth) ELSE Nothing,
         terrain_obstruction |-> use_terrain]

\* lines 69-101: the report built from the positions kept
build_report(solar_positions, use_terrain) ==
    LET has == solar_positions # <<>>
        first_position == solar_positions[1]
        last_position == solar_positions[Len(solar_positions)]
        sunrise_time == fromisoformat(first_position.time)
        sunset_time == fromisoformat(last_position.time)
    IN  [kind |-> "report",
         has_sunlight |-> Len(solar_positions) > 0,
         first_direct_sunlight |-> IF has THEN Some(isoformat(sunrise_time)) ELSE Nothing,
         sun_altitude_at_rise |-> IF has THEN Some(first_position.altitude) ELSE Nothing,
         sun_azimuth_at_rise |-> IF has THEN Some(first_position.azimuth) ELSE Nothing,
         last_direct_sunlight |-> IF has THEN Some(isoformat(sunset_time)) ELSE Nothing,
         sun_altitude_at_loss |-> IF has THEN Some(last_position.altitude) ELSE Nothing,
         sun_azimuth_at_loss |-> IF has THEN Some(last_position.azimuth) ELSE Nothing,
         terrain_obstruction |-> use_terrain]

\* predict_sunlight_loss for the day whose positions are given; file is the parsed
\* terrain file when use_terrain (a terrain_file was named)
predict_sunlight_loss(positions, use_terrain, file) ==
    LET terrain == IF use_terrain THEN loaded_profile(file) ELSE EmptyDict
        swept == sweep(positions, use_terrain, terrain, 0, MinutesPerDay, <<>>)
    IN  IF swept.kind = "raise" THEN swept
        ELSE build_report(swept.list, use_terrain)

\* positions the provider may return
SunAltitudes == {-3, 0, 5}
SunAzimuths == {90, 180}
Positions == [altitude : SunAltitudes, azimuth : SunAzimuths]
Skies == [1..DaySamples -> Positions]

PredictHorizon ==
    /\ report_horizon' = predict_sunlight_loss(sky, FALSE, NoFile)
    /\ UNCHANGED <<terrain_vars, sky, report_terrain, terrain_file, solar_vars>>

PredictTerrain ==
    \E f \in Files :
        /\ report_terrain' = predict_sunlight_loss(sky, TRUE, f)
        /\ terrain_file' = f
        /\ UNCHANGED <<terrain_vars, sky, report_horizon, solar_vars>>

\* a location and a day: the provider's positions are fixed, nothing predicted yet
InitPredict ==
    /\ elevations = EmptyDict
    /\ reference_elevation = 0
    /\ supplied = <<>>
    /\ call = [op |-> "init", azimuth |-> 0, altitude |-> 0]
    /\ result = None
    /\ sky \in Skies
    /\ report_horizon = None
    /\ report_terrain = None
    /\ terrain_file = NoFile
    /\ SolarIdle

NextPredict == PredictHorizon \/ PredictTerrain

PredictSpec == InitPredict /\ [][NextPredict]_vars

(***************************************************************************)
(* SolarCalculator: the crossing searches of src/src/solar.py.             *)
(*                                                                         *)
(* An instant is a whole number of clock ticks since 00:00 UTC of day D    *)
(* (negative before it).  Python's datetime ticks 10^6 times a second; the *)
(* model ticks TicksPerSecond times a second, which keeps every instant of *)
(* the three days a search can reach inside TLC's integers.  With 1024     *)
(* ticks a second every midpoint of the bisection of a one-minute or a     *)
(* one-hour bracket is a whole tick.                                       *)
(*                                                                         *)
(* The position provider is external.  sun holds the altitude it returns:  *)
(* SunKnots values a day at equal spacing from 00:00, the same every day,  *)
(* linear in between.  An altitude is the exact rational num/den.          *)
(***************************************************************************)
Second == TicksPerSecond
Minute == 60 * Second
Hour == 60 * Minute
Day == 24 * Hour

KnotSpacing == Day \div SunKnots

\* lines 35-53: get_solar_position(dt)["altitude"]
solar_altitude(s, dt) ==
    LET m == dt % Day
        i == m \div KnotSpacing
        a == s[i + 1]
        b == s[((i + 1) % SunKnots) + 1]
    IN  [num |-> a * KnotSpacing + (b - a) * (m - i * KnotSpacing), den |-> KnotSpacing]

\* altitude > target and altitude <= target, for a whole number of degrees
above(altitude, target) == altitude.num > target * altitude.den
not_above(altitude, target) == ~above(altitude, target)

\* the sign of altitude - target_altitude; prev_diff * current_diff <= 0 (line 149)
\* is decided by the signs of its factors
diff(altitude, target_altitude) ==
    LET d == altitude.num - target_altitude * altitude.den
    IN  IF d > 0 THEN 1 ELSE IF d < 0 THEN -1 ELSE 0

\* a datetime returned by a search
Instant(t) == [kind |-> "datetime", t |-> t]

\* dt.replace(hour=12, minute=0, second=0, microsecond=0), dt.day, dt.hour, and
\* timedelta.days
noon(dt) == (dt \div Day) * Day + 12 * Hour
day(dt) == dt \div Day
hour(dt) == (dt % Day) \div Hour
days(delta) == delta \div Day

\* timedelta / 2: the quotient is rounded to the nearest tick, a half to even
half(delta) ==
    LET q == delta \div 2
    IN  IF delta % 2 = 0 THEN q ELSE IF q % 2 = 0 THEN q ELSE q + 1

\* lines 90-113
RECURSIVE _binary_search_horizon_crossing(_, _, _, _)
_binary_search_horizon_crossing(s, time_before, time_after, tolerance_seconds) ==
    IF ~((time_after - time_before) > tolerance_seconds * Second) THEN time_after
    ELSE LET mid_time == time_before + half(time_after - time_before)
             altitude == solar_altitude(s, mid_time)
         IN  IF above(altitude, 0)
             THEN _binary_search_horizon_crossing(s, mid_time, time_after, tolerance_seconds)
             ELSE _binary_search_horizon_crossing(s, time_before, mid_time, tolerance_seconds)

\* lines 164-181
RECURSIVE _binary_search_altitude_crossing(_, _, _, _, _)
_binary_search_altitude_crossing(s, time_before, time_after, target_altitude, tolerance_seconds) ==
    IF ~((time_after - time_before) > tolerance_seconds * Second) THEN time_after
    ELSE LET mid_time == time_before + half(time_after - time_before)
             altitude == solar_altitude(s, mid_time)
         IN  IF above(altitude, target_altitude)
             THEN _binary_search_altitude_crossing(s, mid_time, time_after,
                                                   target_altitude, tolerance_seconds)
             ELSE _binary_search_altitude_crossing(s, time_before, mid_time,
                                                   target_altitude, tolerance_seconds)

\* the least element of a non-empty set of integers
Min(S) == CHOOSE x \in S : \A y \in S : x <= y

\* a slip of find_sunset_time: line 77 tests prev_diff * current_diff <= 0, a crossing
\* of the horizon in either direction
find_sunset_time_either(s, dt, step_minutes) ==
    LET search_start == noon(dt)
        sample(k) == search_start + k * step_minutes * Minute
        leaves(k) == hour(sample(k)) >= 23 \/ day(sample(k)) # day(dt)
        last == Min({k \in 1..((12 * 60) \div step_minutes + 1) : leaves(k)})
        crossed(k) == diff(solar_altitude(s, sample(k - 1)), 0)
                          * diff(solar_altitude(s, sample(k)), 0) <= 0
        crossings == {k \in 1..last : crossed(k)}
    IN  IF crossings = {} THEN None
        ELSE Instant(_binary_search_horizon_crossing(
                         s, sample(Min(crossings)) - step_minutes * Minute,
                         sample(Min(crossings)), DefaultTolerance))

\* lines 55-88.  The loop is unrolled: iteration k steps current_time from sample k-1
\* to sample k of the scan and compares their altitudes (line 77).  The loop is left
\* after the first iteration whose sample has hour >= 23 (line 85) or lies on another
\* day (line 72); 12 hours of steps and one more leave the day from noon.  The
\* result comes from the first iteration that sees a crossing, None if there is none.
find_sunset_time(s, dt, step_minutes) ==
    LET search_start == noon(dt)
        sample(k) == search_start + k * step_minutes * Minute
        leaves(k) == hour(sample(k)) >= 23 \/ day(sample(k)) # day(dt)
        last == Min({k \in 1..((12 * 60) \div step_minutes + 1) : leaves(k)})
        crossed(k) == /\ above(solar_altitude(s, sample(k - 1)), 0)
                      /\ not_above(solar_altitude(s, sample(k)), 0)
        crossings == {k \in 1..last : crossed(k)}
    IN  IF crossings = {} THEN None
        ELSE Instant(_binary_search_horizon_crossing(
                         s, sample(Min(crossings)) - step_minutes * Minute,
                         sample(Min(crossings)), DefaultTolerance))

\* a scan that reached its bound and returns its last sample instead of None
not_found_last_sample(current_time) == Instant(current_time)

\* line 162: return None
not_found(current_time) == None

\* lines 143-162: the loop of _find_altitude_crossing, entered with current_time and
\* prev_diff
RECURSIVE crossing_scan(_, _, _, _, _, _)
crossing_scan(s, dt, target_altitude, step, current_time, prev_diff) ==
    LET next_time == current_time + step * Hour
        current_diff == diff(solar_altitude(s, next_time), target_altitude)
    IN  IF prev_diff * current_diff <= 0
        THEN Instant(_binary_search_altitude_crossing(
                         s, next_time - step * Hour, next_time, target_altitude,
                         DefaultTolerance))
        ELSE IF Abs(days(next_time - dt)) > 1 THEN not_found(next_time)
        ELSE crossing_scan(s, dt, target_altitude, step, next_time, current_diff)

\* lines 143-162: the last instant for which the loop of _find_altitude_crossing asks
\* the provider, that is current_time when the loop returns
RECURSIVE last_sample_of_scan(_, _, _, _, _, _)
last_sample_of_scan(s, dt, target_altitude, step, current_time, prev_diff) ==
    LET next_time == current_time + step * Hour
        current_diff == diff(solar_altitude(s, next_time), target_altitude)
    IN  IF prev_diff * current_diff <= 0 THEN next_time
        ELSE IF Abs(days(next_time - dt)) > 1 THEN next_time
        ELSE last_sample_of_scan(s, dt, target_altitude, step, next_time, current_diff)

\* lines 137-162: the same for a call of _find_altitude_crossing
last_sample(s, dt, target_altitude, search_forward) ==
    LET step == IF search_forward THEN 1 ELSE -1
        current_time == noon(dt)
        prev_diff == diff(solar_altitude(s, current_time), target_altitude)
    IN  last_sample_of_scan(s, dt, target_altitude, step, current_time, prev_diff)

\* lines 133-162
_find_altitude_crossing(s, dt, target_altitude, search_forward) ==
    LET step == IF search_forward THEN 1 ELSE -1
        current_time == noon(dt)
        prev_diff == diff(solar_altitude(s, current_time), target_altitude)
    IN  crossing_scan(s, dt, target_altitude, step, current_time, prev_diff)

\* lines 115-131
get_civil_twilight_times(s, dt) ==
    [kind |-> "dict",
     civil_dusk |-> _find_altitude_crossing(s, dt, -6, TRUE),
     civil_dawn |-> _find_altitude_crossing(s, dt - Day, -6, FALSE)]

\* inputs: the sun of a day (polar night, polar day, twilight only, and days with a
\* sunrise and a sunset at any hour UTC), instants of day D, scan steps, thresholds
KnotAltitudes == {-10, -1, 20}
Suns == [1..SunKnots -> KnotAltitudes]
StartTimes == {0, 23 * Hour}
StepChoices == {DefaultStep, 60}
Targets == {-6, 0}
BracketStarts == {2 * h * Hour : h \in 0..11}

FindSunsetTime ==
    /\ \E dt \in StartTimes, step_minutes \in StepChoices :
           /\ search' = [op |-> "find_sunset_time", dt |-> dt,
                         step_minutes |-> step_minutes]
           /\ found' = find_sunset_time(sun, dt, step_minutes)
    /\ UNCHANGED <<terrain_vars, sky, report_horizon, report_terrain, terrain_file, sun>>

GetCivilTwilightTimes ==
    /\ \E dt \in StartTimes :
           /\ search' = [op |-> "get_civil_twilight_times", dt |-> dt]
           /\ found' = get_civil_twilight_times(sun, dt)
    /\ UNCHANGED <<terrain_vars, sky, report_horizon, report_terrain, terrain_file, sun>>

FindAltitudeCrossing ==
    /\ \E dt \in StartTimes, target_altitude \in Targets, search_forward \in BOOLEAN :
           /\ search' = [op |-> "_find_altitude_crossing", dt |-> dt,
                         target_altitude |-> target_altitude,
                         search_forward |-> search_forward,
                         last_sample |-> last_sample(sun, dt, target_altitude,
                                                     search_forward)]
           /\ found' = _find_altitude_crossing(sun, dt, target_altitude, search_forward)
    /\ UNCHANGED <<terrain_vars, sky, report_horizon, report_terrain, terrain_file, sun>>

BinarySearchHorizonCrossing ==
    /\ \E time_before \in BracketStarts :
           /\ search' = [op |-> "_binary_search_horizon_crossing",
                         time_before |-> time_before, time_after |-> time_before + Hour,
                         target_altitude |-> 0, tolerance_seconds |-> DefaultTolerance]
           /\ found' = Instant(_binary_search_horizon_crossing(
                                   sun, time_before, time_before + Hour, DefaultTolerance))
    /\ UNCHANGED <<terrain_vars, sky, report_horizon, report_terrain, terrain_file, sun>>

BinarySearchAltitudeCrossing ==
    /\ \E time_before \in BracketStarts, target_altitude \in Targets :
           /\ search' = [op |-> "_binary_search_altitude_crossing",
                         time_before |-> time_before, time_after |-> time_before + Hour,
                         target_altitude |-> target_altitude,
                         tolerance_seconds |-> DefaultTolerance]
           /\ found' = Instant(_binary_search_altitude_crossing(
                                   sun, time_before, time_before + Hour, target_altitude,
                                   DefaultTolerance))
    /\ UNCHANGED <<terrain_vars, sky, report_horizon, report_terrain, terrain_file, sun>>

\* a SolarCalculator was constructed for a location; no search was called yet
InitSolar ==
    /\ elevations = EmptyDict
    /\ reference_elevation = 0
    /\ supplied = <<>>
    /\ call = [op |-> "init", azimuth |-> 0, altitude |-> 0]
    /\ result = None
    /\ sky = <<>>
    /\ report_horizon = None
    /\ report_terrain = None
    /\ terrain_file = NoFile
    /\ sun \in Suns
    /\ search = [op |-> "none"]
    /\ found = None

NextSolar ==
    \/ FindSunsetTime
    \/ GetCivilTwilightTimes
    \/ FindAltitudeCrossing
    \/ BinarySearchHorizonCrossing
    \/ BinarySearchAltitudeCrossing

SolarSpec == InitSolar /\ [][NextSolar]_vars

(***************************************************************************)
(* predict_sunlight_loss without terrain over the sun of the searches: the *)
(* sweep asks the provider for every minute of day D, as the code does.    *)
(***************************************************************************)
\* the greatest element of a non-empty set of integers
Max(S) == CHOOSE x \in S : \A y \in S : x >= y

\* lines 35-53: get_solar_position(dt) for the minute m of day D; the azimuth goes
\* once around in a day
minute_position(s, m) ==
    [altitude |-> solar_altitude(s, m * Minute), azimuth |-> m \div 4,
     time |-> isoformat(m)]

\* main.py lines 56-67, else branch: the minutes of the day whose position is kept
kept_minutes(s) ==
    {m \in 0..(MinutesPerDay - 1) : above(minute_position(s, m).altitude, 0)}

\* main.py lines 51-101 with terrain_file None: the report reads the first and the
\* last position kept and whether any was kept
predict_sunlight_loss_of_sun(s) ==
    LET kept == kept_minutes(s)
    IN  build_report(IF kept = {} THEN <<>>
                     ELSE <<minute_position(s, Min(kept)), minute_position(s, Max(kept))>>,
                     FALSE)

SweepSun ==
    /\ report_horizon' = predict_sunlight_loss_of_sun(sun)
    /\ UNCHANGED <<terrain_vars, sky, report_terrain, terrain_file, solar_vars>>

NextDay == SweepSun \/ FindSunsetTime

DaySpec == InitSolar /\ [][NextDay]_vars

(***************************************************************************)
(* _find_altitude_crossing step by step: search is the frame of the call   *)
(* in progress (its arguments and local variables, pc the loop it is in),  *)
(* found what it returned.  One action is one iteration of a loop.         *)
(***************************************************************************)
ScanStartTimes == StartTimes \cup {12 * Hour + 30 * Minute}

\* lines 137-141: the call enters the scan loop
CallFindAltitudeCrossing ==
    /\ search.op = "none"
    /\ \E dt \in ScanStartTimes, target_altitude \in Targets, search_forward \in BOOLEAN :
           search' = [op |-> "_find_altitude_crossing", pc |-> "scan", dt |-> dt,
                      target_altitude |-> target_altitude,
                      step |-> IF search_forward THEN 1 ELSE -1,
                      current_time |-> noon(dt),
                      prev_diff |-> diff(solar_altitude(sun, noon(dt)), target_altitude),
                      time_before |-> 0, time_after |-> 0,
                      steps |-> 0, halvings |-> 0]
    /\ found' = None
    /\ UNCHANGED <<terrain_vars, sky, report_horizon, report_terrain, terrain_file, sun>>

\* a slip of scan_bound_passed: the days are compared without abs()
scan_bound_passed_signed(current_time, dt) == days(current_time - dt) > 1

\* line 161: abs((current_time - dt).days) > 1
scan_bound_passed(current_time, dt) == Abs(days(current_time - dt)) > 1

\* lines 143-162: one iteration of the while True loop
ScanStep ==
    /\ search.op = "_find_altitude_crossing"
    /\ search.pc = "scan"
    /\ LET current_time == search.current_time + search.step * Hour
           current_diff == diff(solar_altitude(sun, current_time), search.target_altitude)
       IN  IF search.prev_diff * current_diff <= 0
           THEN /\ search' = [search EXCEPT !.pc = "bisect",
                                            !.current_time = current_time,
                                            !.time_before = current_time - search.step * Hour,
                                            !.time_after = current_time,
                                            !.steps = @ + 1]
                /\ found' = found
           ELSE IF scan_bound_passed(current_time, search.dt)
           THEN /\ search' = [search EXCEPT !.pc = "returned",
                                            !.current_time = current_time,
                                            !.prev_diff = current_diff,
                                            !.steps = @ + 1]
                /\ found' = None
           ELSE /\ search' = [search EXCEPT !.current_time = current_time,
                                            !.prev_diff = current_diff,
                                            !.steps = @ + 1]
                /\ found' = found
    /\ UNCHANGED <<terrain_vars, sky, report_horizon, report_terrain, terrain_file, sun>>

\* lines 172-181: one test of the while condition of _binary_search_altitude_crossing
\* and, when it holds, one iteration
BisectStep ==
    /\ search.op = "_find_altitude_crossing"
    /\ search.pc = "bisect"
    /\ IF ~((search.time_after - search.time_before) > DefaultTolerance * Second)
       THEN /\ search' = [search EXCEPT !.pc = "returned"]
            /\ found' = Instant(search.time_after)
       ELSE LET mid_time == search.time_before
                                + half(search.time_after - search.time_before)
                altitude == solar_altitude(sun, mid_time)
            IN  /\ search' = IF above(altitude, search.target_altitude)
                             THEN [search EXCEPT !.time_before = mid_time,
                                                 !.halvings = @ + 1]
                             ELSE [search EXCEPT !.time_after = mid_time,
                                                 !.halvings = @ + 1]
                /\ found' = found
    /\ UNCHANGED <<terrain_vars, sky, report_horizon, report_terrain, terrain_file, sun>>

NextScan == CallFindAltitudeCrossing \/ ScanStep \/ BisectStep

\* a call in progress keeps running: each loop takes its next iteration
ScanSpec ==
    InitSolar /\ [][NextScan]_vars /\ WF_vars(ScanStep) /\ WF_vars(BisectStep)

(***************************************************************************)
(* Properties of the day sweep.                                            *)
(***************************************************************************)
\* last_direct_sunlight minus first_direct_sunlight of a report with sunlight, minutes
Window(report) ==
    fromisoformat(report.last_direct_sunlight[1])
        - fromisoformat(report.first_direct_sunlight[1])

\* C1: for the same location and day the sunlight window reported with a non-empty
\* terrain profile is never longer than the one reported without terrain.  (A report
\* with terrain exists only for a non-empty profile: an empty one makes the sweep
\* raise.)
C1_TerrainWindowNotLonger ==
    (/\ report_terrain.kind = "report"
     /\ report_horizon.kind = "report"
     /\ report_terrain.has_sunlight
     /\ report_horizon.has_sunlight)
    => Window(report_terrain) <= Window(report_horizon)

(***************************************************************************)
(* Properties of the lookups (LookupSpec).                                 *)
(***************************************************************************)
Lookups == {"get_obstruction_angle", "is_sun_blocked", "find_unobstructed_sunset"}

\* C11: get_obstruction_angle, is_sun_blocked and find_unobstructed_sunset leave the
\* profile unchanged: the stored samples and reference_elevation are the same after
\* the call as before it, whatever the arguments and also when the call raises.
C11_LookupsDoNotMutate ==
    [][call'.op \in Lookups =>
          /\ elevations' = elevations
          /\ reference_elevation' = reference_elevation]_vars

\* C11 witness: a lookup that raised has acted
C11_Witness ==
    /\ call.op = "find_unobstructed_sunset"
    /\ call.positions # <<>>
    /\ result.kind = "raise"

\* positions of the list handed over that is_sun_blocked does not block
Unblocked ==
    {i \in 1..Len(call.positions) :
         is_sun_blocked(elevations, call.positions[i].altitude,
                        call.positions[i].azimuth) = Bool(FALSE)}
Raising ==
    {i \in 1..Len(call.positions) :
         is_sun_blocked(elevations, call.positions[i].altitude,
                        call.positions[i].azimuth).kind = "raise"}
LastUnblocked == CHOOSE i \in Unblocked : \A j \in Unblocked : j <= i

\* C20: find_unobstructed_sunset returns the last element of the list, in list
\* order, for which is_sun_blocked is false, and None when the list is empty or
\* every element is blocked; a blocked element after the last unblocked one does not
\* change the result.  (When is_sun_blocked raises, so does the call.)
C20_LastUnblockedPosition ==
    call.op = "find_unobstructed_sunset" =>
        IF Raising # {} THEN result.kind = "raise"
        ELSE IF Unblocked = {} THEN result = None
        ELSE /\ result.kind = "position"
             /\ result.time = call.positions[LastUnblocked].time
             /\ result.altitude = call.positions[LastUnblocked].altitude
             /\ result.azimuth = call.positions[LastUnblocked].azimuth

\* C20 witness: an unblocked element followed by a blocked one
C20_Witness ==
    /\ call.op = "find_unobstructed_sunset"
    /\ Raising = {}
    /\ Cardinality(Unblocked) >= 1
    /\ \E i \in 1..Len(call.positions) : i \notin Unblocked /\ i > LastUnblocked
    /\ result.kind = "position"
    /\ result.time = call.positions[LastUnblocked].time

\* a report that says there is no direct sunlight: the six dependent fields are None
DarkReport(report) ==
    /\ report.kind = "report"
    /\ ~report.has_sunlight
    /\ report.first_direct_sunlight = Nothing
    /\ report.last_direct_sunlight = Nothing
    /\ report.sun_altitude_at_rise = Nothing
    /\ report.sun_azimuth_at_rise = Nothing
    /\ report.sun_altitude_at_loss = Nothing
    /\ report.sun_azimuth_at_loss = Nothing

\* the sun is at or below 0 degrees at every sample of the day
AllDark == \A i \in 1..Len(sky) : sky[i].altitude <= 0

\* C16: for a day on which the sun is at or below 0 degrees at every sampled minute
\* predict_sunlight_loss returns has_sunlight = false with the six dependent fields
\* None and raises nothing, whether or not a terrain profile is supplied.
C16_DarkDayHasNoSunlight ==
    AllDark =>
        /\ report_horizon # None => DarkReport(report_horizon)
        /\ report_terrain # None => DarkReport(report_terrain)

Reports == {report_horizon, report_terrain}

\* C17: whenever has_sunlight is true, first_direct_sunlight is strictly earlier
\* than last_direct_sunlight.
C17_FirstStrictlyBeforeLast ==
    \A report \in Reports :
        (report.kind = "report" /\ report.has_sunlight) =>
            fromisoformat(report.first_direct_sunlight[1])
                < fromisoformat(report.last_direct_sunlight[1])

\* C17 as amended: whenever has_sunlight is true, first_direct_sunlight is not later
\* than last_direct_sunlight; the two are equal when one sample only is visible.
C17_FirstNotAfterLast ==
    \A report \in Reports :
        (report.kind = "report" /\ report.has_sunlight) =>
            fromisoformat(report.first_direct_sunlight[1])
                <= fromisoformat(report.last_direct_sunlight[1])

\* C17 witness: the same day reported with a window of positive duration (no
\* terrain) and with a window of one sample, first equal to last (terrain)
C17_Witness ==
    /\ report_horizon.kind = "report"
    /\ report_horizon.has_sunlight
    /\ Window(report_horizon) > 0
    /\ report_terrain.kind = "report"
    /\ report_terrain.has_sunlight
    /\ Window(report_terrain) = 0

\* the samples of the day at which the sun is above the horizon and not blocked by
\* the profile of the terrain file, and the instant of a sample
VisibleSamples ==
    {i \in 1..Len(sky) :
         /\ sky[i].altitude > 0
         /\ is_sun_blocked(loaded_profile(terrain_file), sky[i].altitude,
                           sky[i].azimuth) = Bool(FALSE)}
EarliestVisible == CHOOSE i \in VisibleSamples : \A j \in VisibleSamples : i <= j
LatestVisible == CHOOSE i \in VisibleSamples : \A j \in VisibleSamples : i >= j
SampleInstant(i) == isoformat((i - 1) * StepMinutes)

\* C18: with a terrain profile, first_direct_sunlight and last_direct_sunlight are
\* the earliest and the latest sample of the day at which the sun is both above the
\* horizon and not blocked by terrain; no reported instant has the sun at or below
\* the horizon.
C18_TerrainWindowAboveHorizon ==
    report_terrain.kind = "report" =>
        IF VisibleSamples = {} THEN ~report_terrain.has_sunlight
        ELSE /\ report_terrain.has_sunlight
             /\ report_terrain.first_direct_sunlight = Some(SampleInstant(EarliestVisible))
             /\ report_terrain.last_direct_sunlight = Some(SampleInstant(LatestVisible))
             /\ report_terrain.sun_altitude_at_rise[1] > 0
             /\ report_terrain.sun_altitude_at_loss[1] > 0

(***************************************************************************)
(* Properties of the crossing searches.                                    *)
(***************************************************************************)
\* the side of the threshold the sun is on at an instant: 1 above, -1 below, 0 on it
Side(t, threshold) == diff(solar_altitude(sun, t), threshold)

\* the instants strictly between a and b at which the altitude has a knot
KnotsBetween(a, b) ==
    {t \in {k * KnotSpacing : k \in (a \div KnotSpacing)..(b \div KnotSpacing)} :
         a < t /\ t < b}

\* the altitude equals the threshold at some instant of [a, b]: the altitude is
\* linear between a, the knots and b, so that is a change of side among them
CrossingWithin(a, b, threshold) ==
    \E p, q \in {a, b} \cup KnotsBetween(a, b) :
        Side(p, threshold) * Side(q, threshold) <= 0

Bisections == {"_binary_search_horizon_crossing", "_binary_search_altitude_crossing"}

\* the bracket of the bisection called: its ends on opposite sides of the threshold
\* and the altitude linear inside, so that it crosses the threshold once
BracketWithOneCrossing ==
    /\ search.op \in Bisections
    /\ search.time_before < search.time_after
    /\ KnotsBetween(search.time_before, search.time_after) = {}
    /\ Side(search.time_before, search.target_altitude)
           * Side(search.time_after, search.target_altitude) < 0

\* C12: for a bracket (time_before earlier than time_after) with one threshold
\* crossing inside and its ends on opposite sides of the threshold, in either
\* orientation, the bisection returns an instant within tolerance_seconds of the
\* crossing.
C12_BisectionWithinTolerance ==
    BracketWithOneCrossing =>
        CrossingWithin(found.t - search.tolerance_seconds * Second,
                       found.t + search.tolerance_seconds * Second,
                       search.target_altitude)

\* a search returned None, or an instant at which the sun is at or below the threshold
NoneOrBlockedSide(returned, threshold) ==
    returned # None => not_above(solar_altitude(sun, returned.t), threshold)

\* C13: every instant a crossing search returns (find_sunset_time, and
\* _find_altitude_crossing in either direction and from any starting altitude) has
\* the sun at or below the threshold.
C13_ReturnedInstantOnBlockedSide ==
    /\ search.op = "find_sunset_time" => NoneOrBlockedSide(found, 0)
    /\ search.op = "_find_altitude_crossing" =>
           NoneOrBlockedSide(found, search.target_altitude)
    /\ search.op = "get_civil_twilight_times" =>
           /\ NoneOrBlockedSide(found.civil_dusk, -6)
           /\ NoneOrBlockedSide(found.civil_dawn, -6)

\* C14: the civil dawn of get_civil_twilight_times, when not None, has a crossing
\* of -6 degrees within one minute of it.
C14_CivilDawnWithinAMinute ==
    (search.op = "get_civil_twilight_times" /\ found.civil_dawn # None) =>
        CrossingWithin(found.civil_dawn.t - Minute, found.civil_dawn.t + Minute, -6)

\* the scan of find_sunset_time: the samples from noon of dt's day, step_minutes
\* apart, up to the first at or after 23:00; no sample above 0 is followed by one
\* at or below 0
NoSunsetPair(dt, step_minutes) ==
    LET at(k) == noon(dt) + k * step_minutes * Minute
        scanned == Min({k \in 1..((12 * 60) \div step_minutes) :
                           at(k) >= day(dt) * Day + 23 * Hour})
    IN  \A k \in 1..scanned : ~(Side(at(k - 1), 0) = 1 /\ Side(at(k), 0) <= 0)

\* the scan of _find_altitude_crossing: the hourly samples from noon of dt's day,
\* forward or backward, up to the first more than a day from dt (timedelta.days);
\* no two consecutive samples on opposite sides of the threshold, none on it
NoCrossingPair(dt, threshold, forward) ==
    LET at(k) == noon(dt) + (IF forward THEN k ELSE -k) * Hour
        scanned == Min({k \in 1..(3 * 24) : Abs((at(k) - dt) \div Day) > 1})
    IN  \A k \in 1..scanned : Side(at(k - 1), threshold) * Side(at(k), threshold) > 0

\* C15: when the scanned range has no pair of consecutive samples that qualifies as a
\* crossing, find_sunset_time and _find_altitude_crossing return None (no exception),
\* and get_civil_twilight_times carries None in the corresponding field.
C15_NoCrossingReturnsNone ==
    /\ (search.op = "find_sunset_time" /\ NoSunsetPair(search.dt, search.step_minutes))
           => found = None
    /\ (/\ search.op = "_find_altitude_crossing"
        /\ NoCrossingPair(search.dt, search.target_altitude, search.search_forward))
           => found = None
    /\ search.op = "get_civil_twilight_times" =>
           /\ NoCrossingPair(search.dt, -6, TRUE) => found.civil_dusk = None
           /\ NoCrossingPair(search.dt - Day, -6, FALSE) => found.civil_dawn = None

\* C15 witness: get_civil_twilight_times on a day whose scans, forward and backward,
\* see no crossing of -6 degrees returned None twice
C15_Witness ==
    /\ search.op = "get_civil_twilight_times"
    /\ NoCrossingPair(search.dt, -6, TRUE)
    /\ NoCrossingPair(search.dt - Day, -6, FALSE)
    /\ found.civil_dusk = None
    /\ found.civil_dawn = None

\* C19: every instant produced for day D other than civil dawn (here the
\* find_sunset_time result and civil dusk) lies in [D 00:00, D+1 00:00).
C19_InstantsWithinTheDay ==
    /\ (search.op = "find_sunset_time" /\ found # None) =>
           (day(search.dt) * Day <= found.t /\ found.t < (day(search.dt) + 1) * Day)
    /\ (search.op = "get_civil_twilight_times" /\ found.civil_dusk # None) =>
           /\ day(search.dt) * Day <= found.civil_dusk.t
           /\ found.civil_dusk.t < (day(search.dt) + 1) * Day

(***************************************************************************)
(* Range of the obstruction angle.                                         *)
(***************************************************************************)
StoredAngles == {elevations[k] : k \in Keys}
SmallestAngle == CHOOSE e \in StoredAngles : \A f \in StoredAngles : e <= f
LargestAngle == CHOOSE e \in StoredAngles : \A f \in StoredAngles : e >= f

\* C27: on a non-empty profile get_obstruction_angle returns, for every query
\* azimuth, a value between the smallest and the largest stored obstruction angle
\* (it lies between the two samples it interpolates); a profile of one sample
\* returns that sample's value for every azimuth.
C27_AngleWithinStoredRange ==
    (call.op = "get_obstruction_angle" /\ IsNonEmpty) =>
        /\ result.kind = "value"
        /\ SmallestAngle * result.den <= result.num
        /\ result.num <= LargestAngle * result.den
        /\ Cardinality(Keys) = 1 => result = Whole(elevations[SmallestKey])

(***************************************************************************)
(* Shape of the report of predict_sunlight_loss.                           *)
(***************************************************************************)
\* the provider's position at a reported instant
ProviderAt(instant) == sky[fromisoformat(instant[1]) \div StepMinutes + 1]

\* C25: in every result of predict_sunlight_loss has_sunlight is true exactly when
\* first_direct_sunlight and last_direct_sunlight are both not None; when it is
\* false the six dependent fields are None, when it is true the reported altitudes
\* and azimuths are the provider's values at the reported instants.
C25_ReportFieldsConsistent ==
    \A report \in Reports :
        report.kind = "report" =>
            /\ report.has_sunlight <=> (/\ report.first_direct_sunlight # Nothing
                                        /\ report.last_direct_sunlight # Nothing)
            /\ ~report.has_sunlight => DarkReport(report)
            /\ report.has_sunlight =>
                   /\ report.sun_altitude_at_rise
                          = Some(ProviderAt(report.first_direct_sunlight).altitude)
                   /\ report.sun_azimuth_at_rise
                          = Some(ProviderAt(report.first_direct_sunlight).azimuth)
                   /\ report.sun_altitude_at_loss
                          = Some(ProviderAt(report.last_direct_sunlight).altitude)
                   /\ report.sun_azimuth_at_loss
                          = Some(ProviderAt(report.last_direct_sunlight).azimuth)

\* C25 witness: a day reported with sunlight without terrain, the sun at another
\* azimuth at the loss than at the rise, and without sunlight with terrain
C25_Witness ==
    /\ report_horizon.kind = "report"
    /\ report_horizon.has_sunlight
    /\ report_horizon.sun_azimuth_at_rise # report_horizon.sun_azimuth_at_loss
    /\ report_terrain.kind = "report"
    /\ ~report_terrain.has_sunlight

\* the samples of the day from the first to the last reported instant
WindowSamples(report) ==
    (fromisoformat(report.first_direct_sunlight[1]) \div StepMinutes + 1)
        ..(fromisoformat(report.last_direct_sunlight[1]) \div StepMinutes + 1)

\* C26: the reported window is contiguous: every sample between
\* first_direct_sunlight and last_direct_sunlight is a visible sample (sun above the
\* horizon and, with terrain, not blocked).
C26_WindowContiguous ==
    /\ (report_horizon.kind = "report" /\ report_horizon.has_sunlight) =>
           \A i \in WindowSamples(report_horizon) : sky[i].altitude > 0
    /\ (report_terrain.kind = "report" /\ report_terrain.has_sunlight) =>
           \A i \in WindowSamples(report_terrain) : i \in VisibleSamples

(***************************************************************************)
(* Which pair of samples a coarse scan takes for the crossing.             *)
(***************************************************************************)
\* sample k of the scan of find_sunset_time and the number of its last sample
SunsetSample(k) == noon(search.dt) + k * search.step_minutes * Minute
SunsetScanned ==
    Min({k \in 1..((12 * 60) \div search.step_minutes) :
             SunsetSample(k) >= day(search.dt) * Day + 23 * Hour})

\* sample k of the scan of _find_altitude_crossing and the number of its last sample
CrossingSample(k) == noon(search.dt) + (IF search.search_forward THEN k ELSE -k) * Hour
CrossingScanned ==
    Min({k \in 1..(3 * 24) : Abs((CrossingSample(k) - search.dt) \div Day) > 1})

\* the pairs (k-1, k) of the sunset scan on opposite sides of the horizon or with a
\* sample on it, and those that go from above to at or below
SunsetPairsEither ==
    {k \in 1..SunsetScanned : Side(SunsetSample(k - 1), 0) * Side(SunsetSample(k), 0) <= 0}
SunsetPairsDown ==
    {k \in 1..SunsetScanned :
         Side(SunsetSample(k - 1), 0) = 1 /\ Side(SunsetSample(k), 0) <= 0}
CrossingPairsEither ==
    {k \in 1..CrossingScanned :
         Side(CrossingSample(k - 1), search.target_altitude)
             * Side(CrossingSample(k), search.target_altitude) <= 0}

\* the search returned an instant between the samples of the first pair of the set,
\* None when the set is empty
FromFirstPair(pairs, first, second) ==
    IF pairs = {} THEN found = None
    ELSE /\ found # None
         /\ \/ first <= found.t /\ found.t <= second
            \/ second <= found.t /\ found.t <= first

\* C21: both coarse scans detect the crossing at the first pair of consecutive
\* samples with diff_prev * diff_curr <= 0 (a change of sign in either direction, or
\* a sample on the threshold).
C21_FirstPairEitherDirection ==
    /\ search.op = "find_sunset_time" =>
           FromFirstPair(SunsetPairsEither,
                         SunsetSample(Min(SunsetPairsEither) - 1),
                         SunsetSample(Min(SunsetPairsEither)))
    /\ search.op = "_find_altitude_crossing" =>
           FromFirstPair(CrossingPairsEither,
                         CrossingSample(Min(CrossingPairsEither) - 1),
                         CrossingSample(Min(CrossingPairsEither)))

\* C21 as amended: _find_altitude_crossing detects the crossing at the first pair
\* with diff_prev * diff_curr <= 0; find_sunset_time at the first pair whose first
\* sample is above the horizon and whose second is at or below it.
C21_FirstPairPerScan ==
    /\ search.op = "find_sunset_time" =>
           FromFirstPair(SunsetPairsDown,
                         SunsetSample(Min(SunsetPairsDown) - 1),
                         SunsetSample(Min(SunsetPairsDown)))
    /\ search.op = "_find_altitude_crossing" =>
           FromFirstPair(CrossingPairsEither,
                         CrossingSample(Min(CrossingPairsEither) - 1),
                         CrossingSample(Min(CrossingPairsEither)))

\* C21 witness: find_sunset_time scanned a pair at which the sun rises through the
\* horizon, none at which it sets, and returned None
C21_Witness ==
    /\ search.op = "find_sunset_time"
    /\ SunsetPairsEither # {}
    /\ SunsetPairsDown = {}
    /\ found = None

\* the pairs of consecutive step samples from 12:00 to 24:00 of dt's day at which the
\* sun goes from above the horizon to at or below it
RestOfDayPairsDown ==
    {k \in 1..((12 * 60) \div search.step_minutes) :
         Side(SunsetSample(k - 1), 0) = 1 /\ Side(SunsetSample(k), 0) <= 0}

\* C22: find_sunset_time scans from 12:00 across the whole rest of dt's day: it
\* returns the crossing of the first pair of consecutive step samples in 12:00-24:00
\* between which the sun sets, and None only if there is no such pair.
C22_ScansWholeRestOfDay ==
    search.op = "find_sunset_time" =>
        FromFirstPair(RestOfDayPairsDown,
                      SunsetSample(Min(RestOfDayPairsDown) - 1),
                      SunsetSample(Min(RestOfDayPairsDown)))

\* C23: _find_altitude_crossing looks at most 1 day away from its 12:00 anchor: it
\* asks for no instant and returns none more than 24 hours before (backward) or
\* after (forward) the anchor, and returns None when no pair of samples within that
\* bound brackets a crossing.
C23_AtMostOneDayFromAnchor ==
    search.op = "_find_altitude_crossing" =>
        /\ Abs(search.last_sample - noon(search.dt)) <= Day
        /\ found # None => Abs(found.t - noon(search.dt)) <= Day
        /\ (\A k \in CrossingPairsEither : k > 24) => found = None

\* C29: get_civil_twilight_times(dt) depends on the calendar date of dt only: for
\* the same sun, another time of the same day gives the same civil_dawn and
\* civil_dusk, None included.
C29_TwilightDependsOnDateOnly ==
    search.op = "get_civil_twilight_times" =>
        \A other \in StartTimes :
            day(other) = day(search.dt) => get_civil_twilight_times(sun, other) = found

(***************************************************************************)
(* The sweep against the sunset search.                                    *)
(***************************************************************************)
\* the minute of last_direct_sunlight of the report without terrain
LastSunlitMinute == fromisoformat(report_horizon.last_direct_sunlight[1])

\* C24: for every day that has sunlight, last_direct_sunlight of the one-minute
\* sweep (no terrain) is the last whole-minute sample before the instant that
\* find_sunset_time returns for that day, at most one minute from it, and
\* find_sunset_time returns an instant whenever the sunlight reported ends within
\* the day.
C24_SweepMatchesSunsetSearch ==
    (/\ report_horizon.kind = "report"
     /\ report_horizon.has_sunlight
     /\ search.op = "find_sunset_time"
     /\ search.step_minutes = DefaultStep) =>
        /\ LastSunlitMinute < MinutesPerDay - 1 => found # None
        /\ found # None =>
               /\ LastSunlitMinute * Minute <= found.t
               /\ found.t <= (LastSunlitMinute + 1) * Minute

(***************************************************************************)
(* Termination of the twilight search.                                     *)
(***************************************************************************)
Running == search.op = "_find_altitude_crossing" /\ search.pc # "returned"
Returned == search.op = "_find_altitude_crossing" /\ search.pc = "returned"

\* C28: the while True scan of _find_altitude_crossing ends for every sun, scan
\* direction and dt after a bounded number of one-hour steps (no more than the 60 of
\* two days and a half), returning a bisected instant or None; the bisection it
\* calls ends for the tolerance of 1 second (a one-hour bracket is halved no more
\* than 12 times).
C28_TwilightSearchTerminates ==
    /\ [](search.op = "_find_altitude_crossing" =>
              search.steps <= 2 * 24 + 12 /\ search.halvings <= 12)
    /\ [](Returned => found = None \/ (found.kind = "datetime" /\ search.steps > 0))
    /\ (Running ~> Returned)

\* C28 witness: a backward scan that saw no crossing in more than a day of hourly
\* steps has returned None
C28_Witness ==
    /\ Returned
    /\ search.step = -1
    /\ search.steps > 24
    /\ found = None

====
